---- MODULE Spec2Model ----
(***************************************************************************)
(* A model of SceneManager (Source/SceneManager.cpp): the texture table,   *)
(* the material list, the shader uniforms the scene manager writes and the *)
(* OpenGL texture objects and texture units it drives.                     *)
(*                                                                         *)
(* Every method is an operator from a "world" record (the object's fields  *)
(* together with the GL and shader state) to the world it leaves, so that  *)
(* a method that calls other methods is the composition of their           *)
(* operators.  An action applies one public call to the current state.     *)
(*                                                                         *)
(* Numbers: a float of a material is held in millionths (0.09225f is       *)
(* 92250), a float of a transformation in thousandths (2.5f is 2500).      *)
(***************************************************************************)
EXTENDS Integers, Sequences, FiniteSets, TLC

VARIABLES
    phase,              \* "live", "destroyed", or "undefined" once a store went past m_textureIDs
    disk,               \* the image files: file name -> channel count, 0 when stbi_load fails
    m_textureIDs,       \* the texture table: 0..15 -> [tag, ID]
    m_loadedTextures,   \* the number of registered textures
    m_objectMaterials,  \* the material list, a sequence of OBJECT_MATERIAL records
    m_pShaderManager,   \* "shader", or "NULL" once the destructor ran
    m_basicMeshes,      \* the meshes loaded into the ShapeMeshes helper
    glTextures,         \* GL texture names generated and not deleted
    glActive,           \* the active texture unit (glActiveTexture)
    glUnits,            \* texture unit -> name bound to its GL_TEXTURE_2D target, 0 for none
    shader,             \* the uniforms written through m_pShaderManager
    calls,              \* how many calls of each bounded operation were made
    created,            \* history: every CreateGLTexture call, its tag, outcome and GL name
    ret,                \* the last call: its name, arguments and result
    log                 \* the calls the last PrepareScene or RenderScene made, in order

vars == <<phase, disk, m_textureIDs, m_loadedTextures, m_objectMaterials,
          m_pShaderManager, m_basicMeshes, glTextures, glActive, glUnits, shader,
          calls, created, ret, log>>

(***************************************************************************)
(* Program constants and the bounds of the model.                          *)
(***************************************************************************)
TableSize == 16

MaxCreateCalls == 2
MaxLoadCalls == 3
MaxDefineCalls == 2
MaxPrepareCalls == 3
MaxReadCalls == 1

Slots == 0 .. (TableSize - 1)

\* Mutant: the knife handle image is registered under a tag no draw asks for.
SceneLoads_HandleTag ==
    << [file |-> "BackgroundTile.jpg",        tag |-> "background"],
       [file |-> "PotGold.jpg",               tag |-> "pot"],
       [file |-> "gold-seamless-texture.jpg", tag |-> "gold"],
       [file |-> "BlueRusticWood2.png",       tag |-> "rustic"],
       [file |-> "melon.bmp",                 tag |-> "melon"],
       [file |-> "leaf.bmp",                  tag |-> "leaf"],
       [file |-> "knife_handle.jpg",          tag |-> "handle"] >>

\* The image files LoadSceneTextures names, in the order it loads them.
SceneLoads ==
    << [file |-> "BackgroundTile.jpg",        tag |-> "background"],
       [file |-> "PotGold.jpg",               tag |-> "pot"],
       [file |-> "gold-seamless-texture.jpg", tag |-> "gold"],
       [file |-> "BlueRusticWood2.png",       tag |-> "rustic"],
       [file |-> "melon.bmp",                 tag |-> "melon"],
       [file |-> "leaf.bmp",                  tag |-> "leaf"],
       [file |-> "knife_handle.jpg",          tag |-> "knife"] >>

SceneFiles == { SceneLoads[i].file : i \in 1 .. Len(SceneLoads) }

\* Files a direct CreateGLTexture call is tried with: an RGBA image, a
\* one-channel image and a name that is no file.
ApiFiles == { "rgba.png", "gray.png", "missing.png" }

\* The direct CreateGLTexture calls tried.
ApiCalls ==
    { [file |-> "rgba.png",    tag |-> "pot"],
      [file |-> "rgba.png",    tag |-> "gold"],
      [file |-> "gray.png",    tag |-> "gold"],
      [file |-> "missing.png", tag |-> "wood"] }

\* The tags looked up: registered by the scene, by a direct call, by a call that
\* fails, by no call, and the tag the constructor writes into unused entries.
LookupTags == { "pot", "gold", "leaf", "wood", "/0" }

\* The channel count stbi_load reports for an intact file.
NominalChannels(f) ==
    CASE f = "BlueRusticWood2.png" -> 4
      [] f = "rgba.png"            -> 4
      [] f = "gray.png"            -> 1
      [] f = "missing.png"         -> 0
      [] OTHER                     -> 3

\* The file systems the program is run on: every file intact, or some of the
\* scene's files unreadable (0 channels) or one-channel images.
Damages ==
    { << >>,
      [f \in {"melon.bmp"} |-> 0],
      [f \in {"BlueRusticWood2.png"} |-> 1],
      [f \in {"BackgroundTile.jpg", "knife_handle.jpg"} |-> 0] }

Disks ==
    { [f \in SceneFiles \cup ApiFiles |->
          IF f \in DOMAIN b THEN b[f] ELSE NominalChannels(f)] : b \in Damages }

(***************************************************************************)
(* The world a method runs in.                                             *)
(***************************************************************************)
World ==
    [ ids    |-> m_textureIDs,
      loaded |-> m_loadedTextures,
      mats   |-> m_objectMaterials,
      pShader |-> m_pShaderManager,
      meshes |-> m_basicMeshes,
      tex    |-> glTextures,
      active |-> glActive,
      units  |-> glUnits,
      sh     |-> shader,
      ub     |-> FALSE,     \* the call ran into undefined behaviour
      result |-> FALSE,     \* the value the last bool method returned
      hist   |-> created,
      log    |-> << >> ]

\* The call trace: name is about to be called.
Enter(w, name) == IF w.ub THEN w ELSE [w EXCEPT !.log = Append(@, name)]

\* glGenTextures(1, &id): a name that is not in use.
GenTexture(tex) == CHOOSE n \in 1 .. (Cardinality(tex) + 1) :
                      /\ n \notin tex
                      /\ \A k \in 1 .. (n - 1) : k \in tex

NoShader ==
    [ model          |-> "unset",
      bUseTexture    |-> "unset",
      objectTexture  |-> "unset",
      UVscale        |-> "unset",
      material       |-> << >>,      \* << >> until written, then << the five values >>
      bUseLighting   |-> "unset",
      lightSources   |-> "unset" ]

(***************************************************************************)
(* SceneManager::SceneManager                                              *)
(***************************************************************************)
Init ==
    /\ phase = "live"
    /\ disk \in Disks
    /\ m_textureIDs = [i \in Slots |-> [tag |-> "/0", ID |-> -1]]
    /\ m_loadedTextures = 0
    /\ m_objectMaterials = << >>
    /\ m_pShaderManager = "shader"
    /\ m_basicMeshes = {}
    /\ glTextures = {}
    /\ glActive = 0
    /\ glUnits = [i \in Slots |-> 0]
    /\ shader = NoShader
    /\ calls = [create |-> 0, load |-> 0, define |-> 0, prepare |-> 0, read |-> 0]
    /\ created = << >>
    /\ ret = [op |-> "SceneManager"]
    /\ log = << >>

(***************************************************************************)
(* SceneManager::CreateGLTexture                                           *)
(***************************************************************************)
\* Lines 128-131: the store into m_textureIDs[m_loadedTextures].  The array has
\* TableSize elements and the index is not checked: a store at TableSize or
\* beyond is undefined behaviour, recorded in ub.
\* Mutant: a tag that is already in the table has its entry replaced.
RegisterTexture_ReplaceSameTag(w, textureID, tag) ==
    IF \E i \in 0 .. (w.loaded - 1) : w.ids[i].tag = tag
    THEN LET i == CHOOSE j \in 0 .. (w.loaded - 1) : w.ids[j].tag = tag
         IN  [w EXCEPT !.ids[i] = [tag |-> tag, ID |-> textureID]]
    ELSE IF w.loaded \in Slots
    THEN [w EXCEPT !.ids[w.loaded] = [tag |-> tag, ID |-> textureID],
                   !.loaded = @ + 1]
    ELSE [w EXCEPT !.ub = TRUE]

RegisterTexture(w, textureID, tag) ==
    IF w.loaded \in Slots
    THEN [w EXCEPT !.ids[w.loaded] = [tag |-> tag, ID |-> textureID],
                   !.loaded = @ + 1]
    ELSE [w EXCEPT !.ub = TRUE]

\* Mutant: the channel count is not checked before the texture is registered.
CreateGLTexture_AnyChannels(w, channels, tag) ==
    IF w.ub THEN w
    ELSE IF channels = 0
    THEN [w EXCEPT !.result = FALSE]
    ELSE LET textureID == GenTexture(w.tex)
             bound == [w EXCEPT !.tex = @ \cup {textureID},
                                !.units[w.active] = textureID]
         IN  RegisterTexture(
                 [bound EXCEPT !.units[w.active] = 0, !.result = channels \in {3, 4}],
                 textureID, tag)

CreateGLTexture(w, channels, tag) ==
    IF w.ub THEN w
    ELSE IF channels = 0
    THEN \* stbi_load returned NULL
         [w EXCEPT !.result = FALSE]
    ELSE LET textureID == GenTexture(w.tex)
             bound == [w EXCEPT !.tex = @ \cup {textureID},
                                !.units[w.active] = textureID]
         IN  IF channels \notin {3, 4}
             THEN \* returns with the texture generated and still bound
                  [bound EXCEPT !.result = FALSE]
             ELSE RegisterTexture(
                      [bound EXCEPT !.units[w.active] = 0, !.result = TRUE],
                      textureID, tag)

(***************************************************************************)
(* SceneManager::BindGLTextures                                            *)
(***************************************************************************)
RECURSIVE BindLoop(_, _)
BindLoop(w, i) ==
    IF i < w.loaded
    THEN BindLoop([w EXCEPT !.active = i, !.units[i] = w.ids[i].ID], i + 1)
    ELSE w

\* Mutant: glActiveTexture is not called, every texture is bound on the active unit.
RECURSIVE BindLoopOneUnit(_, _)
BindLoopOneUnit(w, i) ==
    IF i < w.loaded
    THEN BindLoopOneUnit([w EXCEPT !.units[w.active] = w.ids[i].ID], i + 1)
    ELSE w

BindGLTextures_OneUnit(w) == IF w.ub THEN w ELSE BindLoopOneUnit(w, 0)

BindGLTextures(w) == IF w.ub THEN w ELSE BindLoop(w, 0)

(***************************************************************************)
(* SceneManager::DestroyGLTextures                                         *)
(***************************************************************************)
RECURSIVE DestroyLoop(_, _)
DestroyLoop(w, i) ==
    IF i < w.loaded
    THEN LET fresh == GenTexture(w.tex)
         IN  DestroyLoop([w EXCEPT !.tex = @ \cup {fresh}, !.ids[i].ID = fresh], i + 1)
    ELSE w

DestroyGLTextures(w) == DestroyLoop(w, 0)

(***************************************************************************)
(* SceneManager::FindTextureID, SceneManager::FindTextureSlot              *)
(***************************************************************************)
RECURSIVE FindTextureIDLoop(_, _, _, _)
FindTextureIDLoop(ids, loaded, tag, index) ==
    IF index < loaded
    THEN IF ids[index].tag = tag
         THEN ids[index].ID
         ELSE FindTextureIDLoop(ids, loaded, tag, index + 1)
    ELSE -1

\* Mutant: the scan does not stop at the first match.
RECURSIVE FindTextureIDLast(_, _, _, _, _)
FindTextureIDLast(ids, loaded, tag, index, textureID) ==
    IF index < loaded
    THEN FindTextureIDLast(ids, loaded, tag, index + 1,
                           IF ids[index].tag = tag THEN ids[index].ID ELSE textureID)
    ELSE textureID

FindTextureID_LastMatch(ids, loaded, tag) == FindTextureIDLast(ids, loaded, tag, 0, -1)

FindTextureID(ids, loaded, tag) == FindTextureIDLoop(ids, loaded, tag, 0)

RECURSIVE FindTextureSlotLoop(_, _, _, _)
FindTextureSlotLoop(ids, loaded, tag, index) ==
    IF index < loaded
    THEN IF ids[index].tag = tag
         THEN index
         ELSE FindTextureSlotLoop(ids, loaded, tag, index + 1)
    ELSE -1

\* Mutant: the scan runs over the whole array instead of the loaded entries.
FindTextureSlot_WholeArray(ids, loaded, tag) == FindTextureSlotLoop(ids, TableSize, tag, 0)

FindTextureSlot(ids, loaded, tag) == FindTextureSlotLoop(ids, loaded, tag, 0)

(***************************************************************************)
(* SceneManager::LoadSceneTextures                                         *)
(***************************************************************************)
\* History of the calls: the tag, whether the call returned true, and the GL name
\* glGenTextures handed out during the call (0 when none was generated).
Noted(w, after, tag) ==
    IF after.ub THEN after
    ELSE [after EXCEPT !.hist = Append(@,
              [ tag |-> tag, ok |-> after.result,
                ID |-> IF after.tex = w.tex THEN 0
                       ELSE CHOOSE n \in after.tex \ w.tex : TRUE ])]

TracedCreateGLTexture(w, channels, tag) ==
    Noted(w, CreateGLTexture(Enter(w, "CreateGLTexture:" \o tag), channels, tag), tag)

RECURSIVE LoadLoop(_, _, _)
LoadLoop(w, d, i) ==
    IF w.ub \/ i > Len(SceneLoads) THEN w
    ELSE LoadLoop(TracedCreateGLTexture(w, d[SceneLoads[i].file], SceneLoads[i].tag),
                  d, i + 1)

\* Mutant: the first load that fails ends the method.
RECURSIVE LoadLoopUntilFailure(_, _, _)
LoadLoopUntilFailure(w, d, i) ==
    IF w.ub \/ i > Len(SceneLoads) THEN BindGLTextures(Enter(w, "BindGLTextures"))
    ELSE LET after == TracedCreateGLTexture(w, d[SceneLoads[i].file], SceneLoads[i].tag)
         IN  IF after.result THEN LoadLoopUntilFailure(after, d, i + 1) ELSE after

LoadSceneTextures_StopAtFailure(w, d) == LoadLoopUntilFailure(w, d, 1)

LoadSceneTextures(w, d) == BindGLTextures(Enter(LoadLoop(w, d, 1), "BindGLTextures"))

(***************************************************************************)
(* SceneManager::DefineObjectMaterials                                     *)
(***************************************************************************)
Vec3(x, y, z) == <<x, y, z>>

silver ==
    [ ambientColor |-> Vec3(92250, 92250, 92250), ambientStrength |-> 100000,
      diffuseColor |-> Vec3(407540, 407540, 407540),
      specularColor |-> Vec3(408273, 408273, 408273),
      shininess |-> 1000000, tag |-> "silver" ]

goldMaterial ==
    [ ambientColor |-> Vec3(200000, 200000, 200000), ambientStrength |-> 300000,
      diffuseColor |-> Vec3(200000, 200000, 200000),
      specularColor |-> Vec3(500000, 500000, 500000),
      shininess |-> 22000000, tag |-> "metal" ]

blackMetalMaterial ==
    [ ambientColor |-> Vec3(20000, 20000, 20000), ambientStrength |-> 10000,
      diffuseColor |-> Vec3(10000, 10000, 10000),
      specularColor |-> Vec3(10000, 10000, 10000),
      shininess |-> 10000, tag |-> "blackmetal" ]

blueWoodMaterial ==
    [ ambientColor |-> Vec3(10000, 10000, 10000), ambientStrength |-> 100000,
      diffuseColor |-> Vec3(100000, 100000, 200000),
      specularColor |-> Vec3(100000, 100000, 300000),
      shininess |-> 100000, tag |-> "bluewood" ]

cheeseMaterial ==
    [ ambientColor |-> Vec3(10000, 10000, 10000), ambientStrength |-> 100000,
      diffuseColor |-> Vec3(600000, 600000, 600000),
      specularColor |-> Vec3(100000, 100000, 100000),
      shininess |-> 300000, tag |-> "cheese" ]

turqoiseMaterial ==
    [ ambientColor |-> Vec3(100000, 187250, 174500), ambientStrength |-> 200000,
      diffuseColor |-> Vec3(396000, 741510, 691020),
      specularColor |-> Vec3(297254, 308290, 306678),
      shininess |-> 100000, tag |-> "turqoise" ]

\* Mutant: the gold material is pushed under the tag of the record it was copied from.
DefineObjectMaterials_CopiedTag(w) ==
    IF w.ub THEN w
    ELSE [w EXCEPT !.mats = @ \o << silver, [goldMaterial EXCEPT !.tag = "silver"],
                                    blackMetalMaterial, blueWoodMaterial, cheeseMaterial,
                                    turqoiseMaterial >>]

DefineObjectMaterials(w) ==
    IF w.ub THEN w
    ELSE [w EXCEPT !.mats = @ \o << silver, goldMaterial, blackMetalMaterial,
                                    blueWoodMaterial, cheeseMaterial, turqoiseMaterial >>]

(***************************************************************************)
(* SceneManager::FindMaterial                                              *)
(***************************************************************************)
\* The five assignments of lines 244-248; the tag of material is not assigned.
CopyMaterial(material, from) ==
    [material EXCEPT !.ambientColor = from.ambientColor,
                     !.ambientStrength = from.ambientStrength,
                     !.diffuseColor = from.diffuseColor,
                     !.specularColor = from.specularColor,
                     !.shininess = from.shininess]

RECURSIVE FindMaterialLoop(_, _, _, _)
FindMaterialLoop(mats, tag, material, index) ==
    IF index <= Len(mats)
    THEN IF mats[index].tag = tag
         THEN CopyMaterial(material, mats[index])
         ELSE FindMaterialLoop(mats, tag, material, index + 1)
    ELSE material

\* Mutant: the method returns bFound, the flag its loop sets.
FindMaterial_ReturnsFound(mats, tag, material) ==
    [ found |-> \E i \in 1 .. Len(mats) : mats[i].tag = tag,
      material |-> FindMaterialLoop(mats, tag, material, 1) ]

\* The value returned and the record the reference parameter holds afterwards.
FindMaterial(mats, tag, material) ==
    IF Len(mats) = 0
    THEN [found |-> FALSE, material |-> material]
    ELSE [found |-> TRUE, material |-> FindMaterialLoop(mats, tag, material, 1)]

(***************************************************************************)
(* SceneManager::SetShaderTexture, SetTextureUVScale, SetShaderMaterial    *)
(***************************************************************************)
\* Mutant: a tag that resolves to no slot falls back to the first texture.
SetShaderTexture_FallBack(w, textureTag) ==
    IF w.ub THEN w
    ELSE IF w.pShader # "NULL"
    THEN LET textureID == FindTextureSlot(w.ids, w.loaded, textureTag)
         IN  [w EXCEPT !.sh.bUseTexture = TRUE,
                       !.sh.objectTexture = IF textureID = -1 THEN 0 ELSE textureID]
    ELSE w

SetShaderTexture(w, textureTag) ==
    IF w.ub THEN w
    ELSE IF w.pShader # "NULL"
    THEN [w EXCEPT !.sh.bUseTexture = TRUE,
                   !.sh.objectTexture = FindTextureSlot(w.ids, w.loaded, textureTag)]
    ELSE w

SetTextureUVScale(w, u, v) ==
    IF w.ub THEN w
    ELSE IF w.pShader # "NULL"
    THEN [w EXCEPT !.sh.UVscale = <<u, v>>]
    ELSE w

\* uninit is what the local "OBJECT_MATERIAL material;" of line 368 holds before
\* FindMaterial is called: it is declared without an initializer.
SetShaderMaterial(w, materialTag, uninit) ==
    IF w.ub THEN w
    ELSE IF Len(w.mats) > 0
    THEN LET r == FindMaterial(w.mats, materialTag, uninit)
         IN  IF r.found
             THEN IF w.pShader = "NULL"
                  THEN [w EXCEPT !.ub = TRUE]
                  ELSE [w EXCEPT !.sh.material =
                            << [ ambientColor |-> r.material.ambientColor,
                                 ambientStrength |-> r.material.ambientStrength,
                                 diffuseColor |-> r.material.diffuseColor,
                                 specularColor |-> r.material.specularColor,
                                 shininess |-> r.material.shininess ] >>]
             ELSE w
    ELSE w

(***************************************************************************)
(* SceneManager::SetupSceneLights                                          *)
(***************************************************************************)
SetupSceneLights(w) ==
    IF w.ub THEN w
    ELSE IF w.pShader = "NULL"
    THEN [w EXCEPT !.ub = TRUE]
    ELSE [w EXCEPT
            !.sh.bUseLighting = TRUE,
            !.sh.lightSources =
                << [ position |-> Vec3(0, 100000, 0), ambientC |-> Vec3(200, 200, 200),
                     diffuseC |-> Vec3(1000, 1000, 1000), specularC |-> Vec3(800, 800, 800),
                     focalStr |-> 25000, specularInt |-> 900 ],
                   [ position |-> Vec3(-2000, 0, 10000), ambientC |-> Vec3(10, 10, 100),
                     diffuseC |-> Vec3(500, 500, 1000), specularC |-> Vec3(50, 50, 1000),
                     focalStr |-> 1500, specularInt |-> 900 ] >>]

(***************************************************************************)
(* SceneManager::SetTransformations                                        *)
(* 4x4 matrices in thousandths, row by row.                                *)
(***************************************************************************)
MatMul(A, B) ==
    LET cell(i, j) == (A[i][1] * B[1][j] + A[i][2] * B[2][j]
                       + A[i][3] * B[3][j] + A[i][4] * B[4][j]) \div 1000
    IN  << << cell(1, 1), cell(1, 2), cell(1, 3), cell(1, 4) >>,
           << cell(2, 1), cell(2, 2), cell(2, 3), cell(2, 4) >>,
           << cell(3, 1), cell(3, 2), cell(3, 3), cell(3, 4) >>,
           << cell(4, 1), cell(4, 2), cell(4, 3), cell(4, 4) >> >>

\* cos and sin of the angles the program uses, in thousandths.
CosTable(a) ==
    CASE a = 0 -> 1000  [] a = 5 -> 996   [] a = 25 -> 906  [] a = 35 -> 819
      [] a = 40 -> 766  [] a = 55 -> 574  [] a = 70 -> 342  [] a = 75 -> 259
      [] a = 90 -> 0    [] a = 130 -> -643 [] a = 180 -> -1000 [] a = 270 -> 0

SinTable(a) ==
    CASE a = 0 -> 0     [] a = 5 -> 87    [] a = 25 -> 423  [] a = 35 -> 574
      [] a = 40 -> 643  [] a = 55 -> 819  [] a = 70 -> 940  [] a = 75 -> 966
      [] a = 90 -> 1000 [] a = 130 -> 766 [] a = 180 -> 0   [] a = 270 -> -1000

Cos(degrees) == IF degrees < 0 THEN CosTable(-degrees) ELSE CosTable(degrees)
Sin(degrees) == IF degrees < 0 THEN -SinTable(-degrees) ELSE SinTable(degrees)

\* glm::scale(v)
GlmScale(v) ==
    << <<v[1], 0, 0, 0>>, <<0, v[2], 0, 0>>, <<0, 0, v[3], 0>>, <<0, 0, 0, 1000>> >>

\* glm::translate(v)
GlmTranslate(v) ==
    << <<1000, 0, 0, v[1]>>, <<0, 1000, 0, v[2]>>, <<0, 0, 1000, v[3]>>, <<0, 0, 0, 1000>> >>

\* glm::rotate(glm::radians(degrees), axis) for the three unit axes
GlmRotateX(degrees) ==
    LET c == Cos(degrees)
        s == Sin(degrees)
    IN  << <<1000, 0, 0, 0>>, <<0, c, -s, 0>>, <<0, s, c, 0>>, <<0, 0, 0, 1000>> >>

GlmRotateY(degrees) ==
    LET c == Cos(degrees)
        s == Sin(degrees)
    IN  << <<c, 0, s, 0>>, <<0, 1000, 0, 0>>, <<-s, 0, c, 0>>, <<0, 0, 0, 1000>> >>

GlmRotateZ(degrees) ==
    LET c == Cos(degrees)
        s == Sin(degrees)
    IN  << <<c, -s, 0, 0>>, <<s, c, 0, 0>>, <<0, 0, 1000, 0>>, <<0, 0, 0, 1000>> >>

\* Mutant: the factors are multiplied in the opposite order.
ModelView_ScaleFirst(translation, rotationX, rotationY, rotationZ, scale) ==
    MatMul(MatMul(MatMul(MatMul(scale, rotationZ), rotationY), rotationX), translation)

\* Line 289.
ModelView(translation, rotationX, rotationY, rotationZ, scale) ==
    MatMul(MatMul(MatMul(MatMul(translation, rotationX), rotationY), rotationZ), scale)

SetTransformations(w, scaleXYZ, XrotationDegrees, YrotationDegrees, ZrotationDegrees, positionXYZ) ==
    LET scale       == GlmScale(scaleXYZ)
        rotationX   == GlmRotateX(XrotationDegrees)
        rotationY   == GlmRotateY(YrotationDegrees)
        rotationZ   == GlmRotateZ(ZrotationDegrees)
        translation == GlmTranslate(positionXYZ)
        modelView   == ModelView(translation, rotationX, rotationY, rotationZ, scale)
    IN  IF w.ub THEN w
        ELSE IF w.pShader # "NULL"
        THEN [w EXCEPT !.sh.model = modelView]
        ELSE w

(***************************************************************************)
(* The draw procedures.  Each is the literal list of calls its body makes. *)
(***************************************************************************)
Transform(scaleXYZ, rx, ry, rz, positionXYZ) ==
    [ call |-> "SetTransformations", scale |-> scaleXYZ, rx |-> rx, ry |-> ry, rz |-> rz,
      position |-> positionXYZ ]
UVScale(u, v) == [ call |-> "SetTextureUVScale", u |-> u, v |-> v ]
Texture(tag)  == [ call |-> "SetShaderTexture", tag |-> tag ]
Material(tag) == [ call |-> "SetShaderMaterial", tag |-> tag ]
Mesh(name)    == [ call |-> "m_basicMeshes", mesh |-> name ]

\* Lines 637-684.
DrawBackDropScript ==
    << Transform(Vec3(50000, 1000, 50000), 90, 0, 0, Vec3(0, 0, -10000)),
       UVScale(1000, 1000),
       Texture("background"),
       Material("turqoise"),
       Mesh("DrawPlaneMesh") >>

\* Lines 687-811.
DrawVaseScript ==
    << Transform(Vec3(2500, 2500, 10000), 90, 0, 0, Vec3(4000, 3000, 0)),
       UVScale(2500, 2500),
       Texture("pot"),
       Material("silver"),
       Mesh("DrawTorusMesh"),
       Transform(Vec3(2500, 1500, 2500), 0, 0, 0, Vec3(4000, 5000, 0)),
       UVScale(2500, 500),
       Material("silver"),
       Texture("pot"),
       Mesh("DrawTaperedCylinderMesh"),
       Transform(Vec3(2800, 3500, 500), 130, 35, 40, Vec3(3800, 5300, 500)),
       Texture("gold"),
       Material("metal"),
       Mesh("DrawHalfTorusMesh") >>

\* Lines 814-944.
DrawChestScript ==
    << Transform(Vec3(24000, 12000, 8000), 0, 0, 0, Vec3(0, -5000, 0)),
       UVScale(1000, 1000),
       Material("bluewood"),
       Texture("rustic"),
       Mesh("DrawBoxMesh"),
       Transform(Vec3(800, 11800, 500), 0, 0, 0, Vec3(-6000, -5000, 4000)),
       Texture("knife"),
       Material("blackmetal"),
       Mesh("DrawBoxMesh"),
       Transform(Vec3(800, 11800, 500), 0, 0, 0, Vec3(6000, -5000, 4000)),
       Texture("knife"),
       Material("blackmetal"),
       Mesh("DrawBoxMesh") >>

\* Lines 947-1004.
DrawMelonScript ==
    << Transform(Vec3(3500, 2500, 2500), -70, 0, -40, Vec3(-3000, 3500, -2000)),
       UVScale(1000, 1000),
       Material("cheese"),
       Texture("melon"),
       Mesh("DrawSphereMesh") >>

\* Lines 1008-1235.
DrawLeavesScript ==
    << Transform(Vec3(1300, 800, 10), 0, 0, 0, Vec3(-7500, 2000, 700)),
       UVScale(1000, 1000),
       Material("turqoise"),
       Texture("leaf"),
       Mesh("DrawSphereMesh"),
       Transform(Vec3(1000, 600, 10), 0, 0, -5, Vec3(-5000, 2000, 700)),
       Mesh("DrawSphereMesh"),
       Transform(Vec3(1000, 600, 10), 0, 0, 75, Vec3(-6100, 3000, 700)),
       Mesh("DrawSphereMesh"),
       Transform(Vec3(1000, 600, 10), 0, 0, -25, Vec3(-500, 1700, 2000)),
       Mesh("DrawSphereMesh"),
       Transform(Vec3(1000, 600, 10), 0, 0, 75, Vec3(1000, 1700, 2000)),
       Mesh("DrawSphereMesh"),
       Transform(Vec3(1000, 600, 10), 0, 0, 25, Vec3(5300, 5700, 2300)),
       Mesh("DrawSphereMesh"),
       Transform(Vec3(1000, 600, 10), 0, 0, -75, Vec3(6300, 1700, 2600)),
       Mesh("DrawSphereMesh"),
       Transform(Vec3(1000, 600, 10), 0, 0, 55, Vec3(7800, 1700, 2500)),
       Mesh("DrawSphereMesh") >>

\* One call of a draw procedure's body.  A mesh draw changes nothing the scene
\* manager owns.
Exec(w, c, uninit) ==
    CASE c.call = "SetTransformations" ->
            SetTransformations(Enter(w, "SetTransformations"),
                               c.scale, c.rx, c.ry, c.rz, c.position)
      [] c.call = "SetTextureUVScale" ->
            SetTextureUVScale(Enter(w, "SetTextureUVScale"), c.u, c.v)
      [] c.call = "SetShaderTexture" ->
            SetShaderTexture(Enter(w, "SetShaderTexture:" \o c.tag), c.tag)
      [] c.call = "SetShaderMaterial" ->
            SetShaderMaterial(Enter(w, "SetShaderMaterial:" \o c.tag), c.tag, uninit)
      [] c.call = "m_basicMeshes" ->
            Enter(w, c.mesh)

RECURSIVE RunScript(_, _, _, _)
RunScript(w, script, i, uninit) ==
    IF w.ub \/ i > Len(script) THEN w
    ELSE RunScript(Exec(w, script[i], uninit), script, i + 1, uninit)

DrawBackDrop(w, uninit) == RunScript(w, DrawBackDropScript, 1, uninit)
DrawVase(w, uninit)     == RunScript(w, DrawVaseScript, 1, uninit)
DrawChest(w, uninit)    == RunScript(w, DrawChestScript, 1, uninit)
DrawMelon(w, uninit)    == RunScript(w, DrawMelonScript, 1, uninit)
\* Mutant: the leaves are drawn with the uv-scale the melon left in the shader.
DrawLeaves_SharedUVScale(w, uninit) ==
    RunScript(w, SubSeq(DrawLeavesScript, 1, 1)
                   \o SubSeq(DrawLeavesScript, 3, Len(DrawLeavesScript)), 1, uninit)

DrawLeaves(w, uninit)   == RunScript(w, DrawLeavesScript, 1, uninit)

(***************************************************************************)
(* SceneManager::RenderScene                                               *)
(***************************************************************************)
\* Mutant: an object whose texture is not loaded is not drawn.
RenderScene_SkipUntextured(w, uninit) ==
    LET a == DrawBackDrop(Enter(w, "DrawBackDrop"), uninit)
        b == IF FindTextureSlot(a.ids, a.loaded, "pot") = -1 THEN a
             ELSE DrawVase(Enter(a, "DrawVase"), uninit)
        c == DrawChest(Enter(b, "DrawChest"), uninit)
        d == IF FindTextureSlot(c.ids, c.loaded, "melon") = -1 THEN c
             ELSE DrawMelon(Enter(c, "DrawMelon"), uninit)
    IN  DrawLeaves(Enter(d, "DrawLeaves"), uninit)

RenderScene(w, uninit) ==
    LET a == DrawBackDrop(Enter(w, "DrawBackDrop"), uninit)
        b == DrawVase(Enter(a, "DrawVase"), uninit)
        c == DrawChest(Enter(b, "DrawChest"), uninit)
        d == DrawMelon(Enter(c, "DrawMelon"), uninit)
    IN  DrawLeaves(Enter(d, "DrawLeaves"), uninit)

(***************************************************************************)
(* SceneManager::PrepareScene                                              *)
(***************************************************************************)
MeshLoads ==
    << "LoadPlaneMesh", "LoadSphereMesh", "LoadBoxMesh", "LoadTorusMesh",
       "LoadTaperedCylinderMesh" >>

RECURSIVE LoadMeshes(_, _)
LoadMeshes(w, i) ==
    IF w.ub \/ i > Len(MeshLoads) THEN w
    ELSE LoadMeshes([Enter(w, MeshLoads[i]) EXCEPT !.meshes = @ \cup {MeshLoads[i]}], i + 1)

\* Mutant: the registries are emptied before they are filled.
PrepareScene_Replace(w, d) ==
    LET z == [w EXCEPT !.ids = [i \in Slots |-> [tag |-> "/0", ID |-> -1]],
                       !.loaded = 0, !.mats = << >>]
        a == DefineObjectMaterials(Enter(z, "DefineObjectMaterials"))
        b == SetupSceneLights(Enter(a, "SetupSceneLights"))
        c == LoadSceneTextures(Enter(b, "LoadSceneTextures"), d)
    IN  LoadMeshes(c, 1)

PrepareScene(w, d) ==
    LET a == DefineObjectMaterials(Enter(w, "DefineObjectMaterials"))
        b == SetupSceneLights(Enter(a, "SetupSceneLights"))
        c == LoadSceneTextures(Enter(b, "LoadSceneTextures"), d)
    IN  LoadMeshes(c, 1)

(***************************************************************************)
(* SceneManager::~SceneManager                                             *)
(***************************************************************************)
Destroy(w) ==
    LET a == [w EXCEPT !.pShader = "NULL", !.meshes = {}]
        b == DestroyGLTextures(a)
    IN  [b EXCEPT !.mats = << >>]

(***************************************************************************)
(* The calls a client makes.                                               *)
(***************************************************************************)
\* The state a call leaves.  After a store past the end of m_textureIDs the
\* outcome is not defined: the program may have stopped at the store, or the
\* store landed in the memory after the array and the counter was incremented.
\* Either way no later call is followed.
Commit(w, r, next) ==
    /\ m_textureIDs' = w.ids
    /\ m_loadedTextures' \in (IF w.ub THEN {w.loaded, w.loaded + 1} ELSE {w.loaded})
    /\ m_objectMaterials' = w.mats
    /\ m_pShaderManager' = w.pShader
    /\ m_basicMeshes' = w.meshes
    /\ glTextures' = w.tex
    /\ glActive' = w.active
    /\ glUnits' = w.units
    /\ shader' = w.sh
    /\ created' = w.hist
    /\ log' = w.log
    /\ ret' = r
    /\ phase' = IF w.ub THEN "undefined" ELSE next
    /\ UNCHANGED disk

Live == phase = "live"

Before ==
    [ ids |-> m_textureIDs, loaded |-> m_loadedTextures, size |-> Len(m_objectMaterials),
      mats |-> m_objectMaterials ]

CallCreateGLTexture ==
    /\ Live
    /\ calls.create < MaxCreateCalls
    /\ calls' = [calls EXCEPT !.create = @ + 1]
    /\ \E c \in ApiCalls :
          LET w == TracedCreateGLTexture(World, disk[c.file], c.tag)
          IN  Commit([w EXCEPT !.log = << >>],
                     [ op |-> "CreateGLTexture", filename |-> c.file, tag |-> c.tag,
                       value |-> w.result, before |-> Before ], "live")

CallLoadSceneTextures ==
    /\ Live
    /\ calls.load < MaxLoadCalls
    /\ calls' = [calls EXCEPT !.load = @ + 1]
    /\ Commit(LoadSceneTextures(World, disk), [ op |-> "LoadSceneTextures", before |-> Before ], "live")

CallFindTextureID ==
    /\ Live
    /\ UNCHANGED calls
    /\ \E tag \in LookupTags :
          Commit(World, [ op |-> "FindTextureID", tag |-> tag,
                          value |-> FindTextureID(m_textureIDs, m_loadedTextures, tag) ], "live")

CallFindTextureSlot ==
    /\ Live
    /\ UNCHANGED calls
    /\ \E tag \in LookupTags :
          Commit(World, [ op |-> "FindTextureSlot", tag |-> tag,
                          value |-> FindTextureSlot(m_textureIDs, m_loadedTextures, tag) ], "live")

Destructor ==
    /\ Live
    /\ UNCHANGED calls
    /\ Commit(Destroy(World), [ op |-> "~SceneManager", before |-> Before ], "destroyed")

Next ==
    \/ CallCreateGLTexture
    \/ CallLoadSceneTextures
    \/ CallFindTextureID
    \/ CallFindTextureSlot
    \/ Destructor

Spec == Init /\ [][Next]_vars

(***************************************************************************)
(* The material registry on its own.                                       *)
(***************************************************************************)
MaterialTags == { "silver", "metal", "turqoise", "gold" }

\* What the caller's record holds when FindMaterial is called.
StaleMaterial ==
    [ ambientColor |-> Vec3(1, 1, 1), ambientStrength |-> 1, diffuseColor |-> Vec3(1, 1, 1),
      specularColor |-> Vec3(1, 1, 1), shininess |-> 1, tag |-> "stale" ]

OutMaterials == { StaleMaterial, cheeseMaterial }

\* What a local OBJECT_MATERIAL declared without an initializer may hold: the
\* string is default-constructed, the floats are whatever the stack held.
Uninitialized ==
    { [ ambientColor |-> Vec3(g, g, g), ambientStrength |-> g, diffuseColor |-> Vec3(g, g, g),
        specularColor |-> Vec3(g, g, g), shininess |-> g, tag |-> "" ] : g \in {0, -7} }

CallDefineObjectMaterials ==
    /\ Live
    /\ calls.define < MaxDefineCalls
    /\ calls' = [calls EXCEPT !.define = @ + 1]
    /\ Commit(DefineObjectMaterials(World),
              [ op |-> "DefineObjectMaterials", before |-> Before ], "live")

CallFindMaterial ==
    /\ Live
    /\ UNCHANGED calls
    /\ \E tag \in MaterialTags, material \in OutMaterials :
          LET r == FindMaterial(m_objectMaterials, tag, material)
          IN  Commit(World, [ op |-> "FindMaterial", tag |-> tag, out |-> material,
                              value |-> r.found, material |-> r.material ], "live")

CallSetShaderMaterial ==
    /\ Live
    /\ UNCHANGED calls
    /\ \E tag \in MaterialTags, uninit \in Uninitialized :
          Commit(SetShaderMaterial(World, tag, uninit),
                 [ op |-> "SetShaderMaterial", tag |-> tag, uninit |-> uninit,
                   before |-> shader.material ], "live")

NextMaterials ==
    \/ CallDefineObjectMaterials
    \/ CallFindMaterial
    \/ CallSetShaderMaterial
    \/ Destructor

SpecMaterials == Init /\ [][NextMaterials]_vars

(***************************************************************************)
(* The scene: PrepareScene, RenderScene and lookups between them.          *)
(***************************************************************************)
CallPrepareScene ==
    /\ Live
    /\ calls.prepare < MaxPrepareCalls
    /\ calls' = [calls EXCEPT !.prepare = @ + 1]
    /\ Commit(PrepareScene(World, disk), [ op |-> "PrepareScene", before |-> Before ], "live")

CallRenderScene ==
    /\ Live
    /\ UNCHANGED calls
    /\ \E uninit \in Uninitialized :
          Commit(RenderScene(World, uninit), [ op |-> "RenderScene" ], "live")

NextScene ==
    \/ CallPrepareScene
    \/ CallRenderScene
    \/ CallFindTextureID
    \/ CallFindTextureSlot
    \/ CallFindMaterial
    \/ Destructor

SpecScene == Init /\ [][NextScene]_vars

(***************************************************************************)
(* SetTransformations on its own.                                          *)
(***************************************************************************)
Scales == { Vec3(2500, 2500, 10000), Vec3(1000, 2000, 3000) }

Angles == { 0, 90, -90 }

Positions == { Vec3(4000, 3000, 0), Vec3(-1000, 0, 5000) }

CallSetTransformations ==
    /\ Live
    /\ UNCHANGED calls
    /\ \E scaleXYZ \in Scales, rx \in Angles, ry \in Angles, rz \in Angles,
          positionXYZ \in Positions :
          Commit(SetTransformations(World, scaleXYZ, rx, ry, rz, positionXYZ),
                 [ op |-> "SetTransformations", scale |-> scaleXYZ, rx |-> rx, ry |-> ry,
                   rz |-> rz, position |-> positionXYZ ], "live")

NextTransform == CallSetTransformations

SpecTransform == Init /\ [][NextTransform]_vars

(***************************************************************************)
(* The registries and the calls that read them: direct registrations,      *)
(* the lookups, BindGLTextures, the shader setters and RenderScene.        *)
(***************************************************************************)
\* The arguments of the calls below: two of the scene's loads, one of which is
\* rejected for its channel count on a damaged disk; the tags they name and one
\* that is never registered; a material tag that is defined and one that is not.
FrameLoads ==
    { [ file |-> "PotGold.jpg", tag |-> "pot" ],
      [ file |-> "BlueRusticWood2.png", tag |-> "rustic" ] }

FrameTags == { "pot", "rustic", "leaf" }

FrameMaterialTags == { "silver", "gold" }

\* The disks on which every file but BlueRusticWood2.png is intact.
FrameDisks ==
    { d \in Disks : \A f \in (SceneFiles \cup ApiFiles) \ {"BlueRusticWood2.png"} :
                       d[f] = NominalChannels(f) }

InitFrame == Init /\ disk \in FrameDisks

\* One more of the calls that register nothing.
Read ==
    /\ Live
    /\ calls.read < MaxReadCalls
    /\ calls' = [calls EXCEPT !.read = @ + 1]

FrameCreateGLTexture ==
    /\ Live
    /\ calls.create < MaxCreateCalls
    /\ calls' = [calls EXCEPT !.create = @ + 1]
    /\ \E c \in FrameLoads :
          LET w == TracedCreateGLTexture(World, disk[c.file], c.tag)
          IN  Commit([w EXCEPT !.log = << >>],
                     [ op |-> "CreateGLTexture", filename |-> c.file, tag |-> c.tag,
                       value |-> w.result, before |-> Before ], "live")

FrameBindGLTextures ==
    /\ Read
    /\ Commit(BindGLTextures(World), [ op |-> "BindGLTextures" ], "live")

FrameFindTextureID ==
    /\ Read
    /\ \E tag \in FrameTags :
          Commit(World, [ op |-> "FindTextureID", tag |-> tag,
                          value |-> FindTextureID(m_textureIDs, m_loadedTextures, tag) ], "live")

FrameFindTextureSlot ==
    /\ Read
    /\ \E tag \in FrameTags :
          Commit(World, [ op |-> "FindTextureSlot", tag |-> tag,
                          value |-> FindTextureSlot(m_textureIDs, m_loadedTextures, tag) ], "live")

FrameFindMaterial ==
    /\ Read
    /\ \E tag \in FrameMaterialTags :
          LET r == FindMaterial(m_objectMaterials, tag, StaleMaterial)
          IN  Commit(World, [ op |-> "FindMaterial", tag |-> tag, out |-> StaleMaterial,
                              value |-> r.found, material |-> r.material ], "live")

FrameSetShaderTexture ==
    /\ Read
    /\ \E tag \in FrameTags :
          Commit(SetShaderTexture(World, tag),
                 [ op |-> "SetShaderTexture", tag |-> tag ], "live")

FrameSetShaderMaterial ==
    /\ Read
    /\ \E tag \in FrameMaterialTags, uninit \in Uninitialized :
          Commit(SetShaderMaterial(World, tag, uninit),
                 [ op |-> "SetShaderMaterial", tag |-> tag, uninit |-> uninit,
                   before |-> shader.material ], "live")

FrameRenderScene ==
    /\ Read
    /\ \E uninit \in Uninitialized :
          Commit(RenderScene(World, uninit), [ op |-> "RenderScene" ], "live")

NextFrame ==
    \/ FrameCreateGLTexture
    \/ CallDefineObjectMaterials
    \/ FrameBindGLTextures
    \/ FrameFindTextureID
    \/ FrameFindTextureSlot
    \/ FrameFindMaterial
    \/ FrameSetShaderTexture
    \/ FrameSetShaderMaterial
    \/ FrameRenderScene
    \/ Destructor

SpecFrame == InitFrame /\ [][NextFrame]_vars

(***************************************************************************)
(* Properties.                                                             *)
(***************************************************************************)
\* The last call was op and it returned in a defined state.
Returned(op) == phase # "undefined" /\ ret.op = op

\* The successful CreateGLTexture calls that registered tag, by position in the history.
Registrations(tag) == { i \in 1 .. Len(created) : created[i].ok /\ created[i].tag = tag }

\* The CreateGLTexture calls for tag that returned false.
Failures(tag) == { i \in 1 .. Len(created) : ~created[i].ok /\ created[i].tag = tag }

\* The loaded entries of the table that carry tag.
Matches(tag) == { i \in 0 .. (m_loadedTextures - 1) : m_textureIDs[i].tag = tag }

\* C1 as claimed: FindTextureID(tag) returns the handle stored by every successful
\* registration of tag, and FindTextureID and FindTextureSlot return -1 for a tag
\* that no successful call registered.
C1_Claim ==
    /\ Returned("FindTextureID") =>
          /\ \A i \in Registrations(ret.tag) : ret.value = created[i].ID
          /\ Registrations(ret.tag) = {} => ret.value = -1
    /\ Returned("FindTextureSlot") =>
          (Registrations(ret.tag) = {} => ret.value = -1)

\* C1 amended: FindTextureID(tag) returns the handle stored by the earliest
\* successful registration of tag, and FindTextureID and FindTextureSlot return
\* -1 for a tag that no successful call registered.
C1_FirstRegistration ==
    /\ Returned("FindTextureID") =>
          /\ \A i \in Registrations(ret.tag) :
                (\A j \in Registrations(ret.tag) : i <= j) => ret.value = created[i].ID
          /\ Registrations(ret.tag) = {} => ret.value = -1
    /\ Returned("FindTextureSlot") =>
          (Registrations(ret.tag) = {} => ret.value = -1)

C1_Witness ==
    /\ Returned("FindTextureID")
    /\ Cardinality(Registrations(ret.tag)) >= 2
    /\ \E i \in Registrations(ret.tag) : ret.value = created[i].ID

\* C3: FindTextureSlot returns the lowest index below m_loadedTextures whose tag
\* equals the argument, FindTextureID the handle stored at that index, and both
\* return -1 exactly when no such index exists.
C3_FirstMatchWins ==
    /\ Returned("FindTextureSlot") =>
          /\ ret.value = -1 <=> Matches(ret.tag) = {}
          /\ ret.value # -1 =>
                /\ ret.value \in Matches(ret.tag)
                /\ \A j \in Matches(ret.tag) : ret.value <= j
    /\ Returned("FindTextureID") =>
          /\ ret.value = -1 <=> Matches(ret.tag) = {}
          /\ ret.value # -1 =>
                \E i \in Matches(ret.tag) :
                    /\ \A j \in Matches(ret.tag) : i <= j
                    /\ ret.value = m_textureIDs[i].ID

C3_Witness ==
    /\ Returned("FindTextureSlot")
    /\ Cardinality(Matches(ret.tag)) >= 2
    /\ ret.value > 0
    /\ \E j \in Matches(ret.tag) : ret.value < j

\* C4 as claimed: at most 16 textures are registered, each at an index in 0..15,
\* and FindTextureSlot returns -1 or a value in 0..15.
C4_Claim ==
    /\ m_loadedTextures \in 0 .. 16
    /\ ret.op = "FindTextureSlot" => ret.value \in -1 .. 15

\* C5: a CreateGLTexture call returns false exactly when the file is unreadable
\* or its channel count is neither 3 nor 4; a call that returned false left the
\* table and m_loadedTextures as they were; FindTextureID and FindTextureSlot
\* return -1 for a tag whose every load failed.
C5_FailedLoadChangesNothing ==
    /\ Returned("CreateGLTexture") =>
          /\ ret.value = FALSE <=> disk[ret.filename] \notin {3, 4}
          /\ ret.value = FALSE =>
                /\ m_textureIDs = ret.before.ids
                /\ m_loadedTextures = ret.before.loaded
    /\ (Returned("FindTextureID") \/ Returned("FindTextureSlot")) =>
          ((Failures(ret.tag) # {} /\ Registrations(ret.tag) = {}) => ret.value = -1)

C5_Witness ==
    /\ Returned("FindTextureSlot")
    /\ Registrations(ret.tag) = {}
    /\ \E i \in Failures(ret.tag) : created[i].ID # 0
    /\ m_loadedTextures > 0
    /\ ret.value = -1

\* C6 as claimed: after the destructor no handle that a successful
\* CreateGLTexture registered is still allocated.
C6_Claim ==
    phase = "destroyed" =>
        \A i \in 1 .. Len(created) : created[i].ok => created[i].ID \notin glTextures

\* C2 as claimed: FindMaterial returns false and leaves the record untouched when
\* no material has the tag, and returns true with the five fields copied from the
\* matching record when one has.
C2_Claim ==
    Returned("FindMaterial") =>
        LET hits == { i \in 1 .. Len(m_objectMaterials) : m_objectMaterials[i].tag = ret.tag }
        IN  IF hits = {}
            THEN ret.value = FALSE /\ ret.material = ret.out
            ELSE /\ ret.value = TRUE
                 /\ \E i \in hits :
                       /\ ret.material.ambientColor = m_objectMaterials[i].ambientColor
                       /\ ret.material.ambientStrength = m_objectMaterials[i].ambientStrength
                       /\ ret.material.diffuseColor = m_objectMaterials[i].diffuseColor
                       /\ ret.material.specularColor = m_objectMaterials[i].specularColor
                       /\ ret.material.shininess = m_objectMaterials[i].shininess

\* C7: a PrepareScene call makes its calls in one fixed order: the materials,
\* the lights, the seven texture loads followed by BindGLTextures, then the five
\* mesh loads; none is left out when a texture load fails.
C7_PrepareOrder ==
    Returned("PrepareScene") =>
        log = << "DefineObjectMaterials", "SetupSceneLights", "LoadSceneTextures",
                 "CreateGLTexture:background", "CreateGLTexture:pot",
                 "CreateGLTexture:gold", "CreateGLTexture:rustic",
                 "CreateGLTexture:melon", "CreateGLTexture:leaf",
                 "CreateGLTexture:knife", "BindGLTextures",
                 "LoadPlaneMesh", "LoadSphereMesh", "LoadBoxMesh", "LoadTorusMesh",
                 "LoadTaperedCylinderMesh" >>

C7_Witness ==
    /\ Returned("PrepareScene")
    /\ \E i \in 1 .. Len(created) : ~created[i].ok /\ created[i].tag = "background"
    /\ Len(log) = 16
    /\ log[11] = "BindGLTextures"
    /\ m_basicMeshes # {}

\* C8: a DefineObjectMaterials call on the empty list leaves exactly six records
\* whose tags are silver, metal, blackmetal, bluewood, cheese, turqoise in that
\* order, no two alike.
C8_SixMaterials ==
    (Returned("DefineObjectMaterials") /\ ret.before.size = 0) =>
        /\ Len(m_objectMaterials) = 6
        /\ [i \in 1 .. 6 |-> m_objectMaterials[i].tag]
             = << "silver", "metal", "blackmetal", "bluewood", "cheese", "turqoise" >>
        /\ \A i, j \in 1 .. 6 :
              m_objectMaterials[i].tag = m_objectMaterials[j].tag => i = j

C8_Witness ==
    /\ Returned("DefineObjectMaterials")
    /\ ret.before.size = 0
    /\ Len(m_objectMaterials) = 6
    /\ m_objectMaterials[6].tag = "turqoise"

\* The names of the draw procedures.
IsDrawProcedure(name) ==
    name \in { "DrawBackDrop", "DrawVase", "DrawChest", "DrawMelon", "DrawLeaves" }

\* C9: a RenderScene call runs DrawBackDrop, DrawVase, DrawChest, DrawMelon and
\* DrawLeaves, each once and in that order, whatever the texture table and the
\* material list hold.
C9_RenderOrder ==
    Returned("RenderScene") =>
        SelectSeq(log, IsDrawProcedure)
            = << "DrawBackDrop", "DrawVase", "DrawChest", "DrawMelon", "DrawLeaves" >>

C9_Witness ==
    /\ Returned("RenderScene")
    /\ m_loadedTextures > 0
    /\ FindTextureSlot(m_textureIDs, m_loadedTextures, "melon") = -1
    /\ Len(SelectSeq(log, IsDrawProcedure)) = 5

\* The image of the point p (thousandths) under the matrix M.
Apply(M, p) ==
    << (M[1][1] * p[1] + M[1][2] * p[2] + M[1][3] * p[3] + M[1][4] * 1000) \div 1000,
       (M[2][1] * p[1] + M[2][2] * p[2] + M[2][3] * p[3] + M[2][4] * 1000) \div 1000,
       (M[3][1] * p[1] + M[3][2] * p[2] + M[3][3] * p[3] + M[3][4] * 1000) \div 1000 >>

\* The five transformations applied to a point one after the other.
ScalePoint(s, p) ==
    << (s[1] * p[1]) \div 1000, (s[2] * p[2]) \div 1000, (s[3] * p[3]) \div 1000 >>
TurnZ(a, p) ==
    << (Cos(a) * p[1] - Sin(a) * p[2]) \div 1000, (Sin(a) * p[1] + Cos(a) * p[2]) \div 1000, p[3] >>
TurnY(a, p) ==
    << (Cos(a) * p[1] + Sin(a) * p[3]) \div 1000, p[2], (Cos(a) * p[3] - Sin(a) * p[1]) \div 1000 >>
TurnX(a, p) ==
    << p[1], (Cos(a) * p[2] - Sin(a) * p[3]) \div 1000, (Sin(a) * p[2] + Cos(a) * p[3]) \div 1000 >>
MovePoint(t, p) == << p[1] + t[1], p[2] + t[2], p[3] + t[3] >>

ProbePoints ==
    { <<0, 0, 0>>, <<1000, 0, 0>>, <<0, 1000, 0>>, <<0, 0, 1000>>, <<1000, 2000, 3000>> }

\* C10: the model uniform SetTransformations sends is translation x rotationX x
\* rotationY x rotationZ x scale: it takes every point to where scaling, then the
\* rotation about z, about y, about x, then the translation take it.
C10_TransformOrder ==
    Returned("SetTransformations") =>
        \A p \in ProbePoints :
            Apply(shader.model, p)
              = MovePoint(ret.position,
                    TurnX(ret.rx, TurnY(ret.ry, TurnZ(ret.rz, ScalePoint(ret.scale, p)))))

C10_Witness ==
    /\ Returned("SetTransformations")
    /\ ret.scale = <<2500, 2500, 10000>>
    /\ ret.rx = 90 /\ ret.ry = 0 /\ ret.rz = 0
    /\ ret.position = <<4000, 3000, 0>>
    /\ shader.model = << <<2500, 0, 0, 4000>>, <<0, 0, -10000, 3000>>,
                         <<0, 2500, 0, 0>>, <<0, 0, 0, 1000>> >>

\* The records of the material list that carry the tag of the last call.
MaterialHits == { i \in 1 .. Len(m_objectMaterials) : m_objectMaterials[i].tag = ret.tag }

\* C11: FindMaterial returns false exactly when the list is empty; on a non-empty
\* list it returns true for every tag, copies the five fields of the first
\* record with the tag into the caller's record when there is one, and leaves
\* the caller's record as it was when there is none.
C11_FindMaterialActual ==
    Returned("FindMaterial") =>
        /\ ret.value = FALSE <=> Len(m_objectMaterials) = 0
        /\ MaterialHits = {} => ret.material = ret.out
        /\ \A i \in MaterialHits :
              (\A j \in MaterialHits : i <= j) =>
                  ret.material =
                      [ ambientColor |-> m_objectMaterials[i].ambientColor,
                        ambientStrength |-> m_objectMaterials[i].ambientStrength,
                        diffuseColor |-> m_objectMaterials[i].diffuseColor,
                        specularColor |-> m_objectMaterials[i].specularColor,
                        shininess |-> m_objectMaterials[i].shininess,
                        tag |-> ret.out.tag ]

C11_Witness ==
    /\ Returned("FindMaterial")
    /\ Len(m_objectMaterials) = 12
    /\ MaterialHits = {}
    /\ ret.value = TRUE
    /\ ret.material = StaleMaterial

\* The calls the draw procedures make, and the tags they pass to a setter.
AllScripts ==
    DrawBackDropScript \o DrawVaseScript \o DrawChestScript \o DrawMelonScript
        \o DrawLeavesScript

TagsPassed(call) ==
    { AllScripts[i].tag : i \in { j \in 1 .. Len(AllScripts) : AllScripts[j].call = call } }

MeshDraws == { AllScripts[i].mesh :
                 i \in { j \in 1 .. Len(AllScripts) : AllScripts[j].call = "m_basicMeshes" } }

\* Positions in the trace of the last call, by kind of entry.
DrawAt      == { j \in 1 .. Len(log) : log[j] \in MeshDraws }
ProcedureAt == { j \in 1 .. Len(log) : IsDrawProcedure(log[j]) }
TransformAt == { j \in 1 .. Len(log) : log[j] = "SetTransformations" }
UVScaleAt   == { j \in 1 .. Len(log) : log[j] = "SetTextureUVScale" }
TextureAt   ==
    { j \in 1 .. Len(log) :
        log[j] \in { "SetShaderTexture:" \o t : t \in TagsPassed("SetShaderTexture") } }
MaterialAt  ==
    { j \in 1 .. Len(log) :
        log[j] \in { "SetShaderMaterial:" \o t : t \in TagsPassed("SetShaderMaterial") } }

\* The last position of S before k, 0 when there is none.
LastBefore(S, k) ==
    IF { j \in S : j < k } = {} THEN 0
    ELSE CHOOSE j \in S : j < k /\ \A i \in S : i < k => i <= j

\* Some position of S lies after a and before b.
Between(S, a, b) == \E j \in S : a < j /\ j < b

C13_UnitsFollowSlots ==
    /\ Returned("LoadSceneTextures") =>
          /\ \A i \in 0 .. (m_loadedTextures - 1) : glUnits[i] = m_textureIDs[i].ID
          /\ \A i \in 0 .. (m_loadedTextures - 1) :
                LET tag == m_textureIDs[i].tag
                IN  glUnits[FindTextureSlot(m_textureIDs, m_loadedTextures, tag)]
                      = FindTextureID(m_textureIDs, m_loadedTextures, tag)
    /\ (Returned("CreateGLTexture") /\ ret.value = TRUE) =>
          /\ m_textureIDs[ret.before.loaded].tag = ret.tag
          /\ glUnits[ret.before.loaded] # m_textureIDs[ret.before.loaded].ID

C13_Witness ==
    /\ Returned("CreateGLTexture")
    /\ ret.value = TRUE
    /\ ret.before.loaded >= 7
    /\ \A i \in 0 .. (ret.before.loaded - 2) : glUnits[i] = m_textureIDs[i].ID
    /\ glUnits[ret.before.loaded] = 0

\* C14: a SetShaderTexture call with a tag no loaded entry carries turns
\* bUseTexture on and sets the sampler uniform to -1, whatever else the table
\* holds; a RenderScene call that passes such tags still makes all its mesh
\* draws, and leaves the sampler at -1 when the last tag it passed is one.
C14_MissingTextureSilent ==
    /\ (Returned("SetShaderTexture") /\ Matches(ret.tag) = {}) =>
          /\ shader.bUseTexture = TRUE
          /\ shader.objectTexture = -1
    /\ (Returned("RenderScene") /\ \E t \in TagsPassed("SetShaderTexture") : Matches(t) = {}) =>
          /\ Cardinality(DrawAt) = 16
          /\ log[Len(log)] = "DrawSphereMesh"
          /\ shader.bUseTexture = TRUE
          /\ Matches("leaf") = {} => shader.objectTexture = -1

C14_Witness ==
    /\ Returned("SetShaderTexture")
    /\ ret.tag = "rustic"
    /\ Failures("rustic") # {}
    /\ Registrations("rustic") = {}
    /\ m_loadedTextures > 0
    /\ shader.bUseTexture = TRUE
    /\ shader.objectTexture = -1

\* C15 as claimed: a SetShaderMaterial call writes the material uniforms only
\* when a record of the list carries the tag, and then writes that record's five
\* values; for a tag no record carries the uniforms stay as they were.
C15_Claim ==
    Returned("SetShaderMaterial") =>
        IF MaterialHits = {}
        THEN shader.material = ret.before
        ELSE \E i \in MaterialHits :
                shader.material =
                    << [ ambientColor |-> m_objectMaterials[i].ambientColor,
                         ambientStrength |-> m_objectMaterials[i].ambientStrength,
                         diffuseColor |-> m_objectMaterials[i].diffuseColor,
                         specularColor |-> m_objectMaterials[i].specularColor,
                         shininess |-> m_objectMaterials[i].shininess ] >>

\* PrepareScene was called once, all seven of its loads succeeded, and the object
\* is alive.
PreparedOnce ==
    /\ phase = "live"
    /\ calls.prepare = 1
    /\ Len(created) = 7
    /\ \A i \in 1 .. 7 : created[i].ok

\* C16: after one PrepareScene with seven successful loads, the texture tags the
\* draw procedures pass are background, pot, gold, rustic, knife, melon and
\* leaf and each is carried by a loaded entry, the first at an index in 0..6;
\* the material tags they pass are turqoise, silver, metal, bluewood, blackmetal
\* and cheese and each is carried by a record of the material list; a
\* RenderScene call in that state passes exactly these tags.
C16_TagsResolve ==
    PreparedOnce =>
        /\ TagsPassed("SetShaderTexture")
              = { "background", "pot", "gold", "rustic", "knife", "melon", "leaf" }
        /\ \A t \in TagsPassed("SetShaderTexture") :
              /\ Matches(t) # {}
              /\ Matches(t) \subseteq 0 .. 6
              /\ FindTextureSlot(m_textureIDs, m_loadedTextures, t) \in Matches(t)
        /\ TagsPassed("SetShaderMaterial")
              = { "turqoise", "silver", "metal", "bluewood", "blackmetal", "cheese" }
        /\ \A t \in TagsPassed("SetShaderMaterial") :
              \E i \in 1 .. Len(m_objectMaterials) : m_objectMaterials[i].tag = t
        /\ ret.op = "RenderScene" =>
              /\ { log[j] : j \in TextureAt }
                    = { "SetShaderTexture:" \o t : t \in TagsPassed("SetShaderTexture") }
              /\ { log[j] : j \in MaterialAt }
                    = { "SetShaderMaterial:" \o t : t \in TagsPassed("SetShaderMaterial") }
              /\ shader.objectTexture \in 0 .. 6

C16_Witness ==
    /\ PreparedOnce
    /\ ret.op = "RenderScene"
    /\ m_loadedTextures = 7
    /\ Len(m_objectMaterials) = 6
    /\ shader.objectTexture = 5
    /\ Cardinality(TextureAt) = 9

\* The methods that register nothing.
ReadOps ==
    { "FindTextureID", "FindTextureSlot", "FindMaterial", "BindGLTextures",
      "SetShaderTexture", "SetShaderMaterial", "RenderScene" }

\* C17: a call of FindTextureID, FindTextureSlot, FindMaterial, BindGLTextures,
\* SetShaderTexture, SetShaderMaterial or RenderScene leaves the texture table,
\* m_loadedTextures and the material list as they were; a CreateGLTexture call
\* that returns true writes its tag and its new handle into the entry at the old
\* m_loadedTextures, changes no other entry and adds one to m_loadedTextures;
\* the entries from m_loadedTextures on hold the tag "/0" and the handle -1.
C17_AppendOnly ==
    [][ phase' = "live" =>
          /\ ret'.op \in ReadOps =>
                /\ m_textureIDs' = m_textureIDs
                /\ m_loadedTextures' = m_loadedTextures
                /\ m_objectMaterials' = m_objectMaterials
          /\ (ret'.op = "CreateGLTexture" /\ ret'.value = TRUE) =>
                /\ m_loadedTextures' = m_loadedTextures + 1
                /\ m_textureIDs'[m_loadedTextures]
                      = [ tag |-> ret'.tag, ID |-> created'[Len(created')].ID ]
                /\ \A i \in Slots \ {m_loadedTextures} : m_textureIDs'[i] = m_textureIDs[i]
                /\ m_objectMaterials' = m_objectMaterials
          /\ \A i \in Slots :
                i >= m_loadedTextures' => m_textureIDs'[i] = [ tag |-> "/0", ID |-> -1 ]
      ]_vars

C17_Witness ==
    /\ Returned("CreateGLTexture")
    /\ ret.value = TRUE
    /\ calls.read = 1
    /\ Len(m_objectMaterials) = 6
    /\ ret.before.loaded = 1
    /\ m_loadedTextures = 2
    /\ m_textureIDs[0] = ret.before.ids[0]
    /\ m_textureIDs[0].tag = m_textureIDs[1].tag
    /\ m_textureIDs[2] = [ tag |-> "/0", ID |-> -1 ]

\* The tags the comparison of lookups runs over.
AllTextureTags == TagsPassed("SetShaderTexture") \cup LookupTags
AllMaterialTags == TagsPassed("SetShaderMaterial") \cup MaterialTags

\* C18: the second PrepareScene call of an object finds 6 materials and n
\* textures, n the number of its loads that succeed, and leaves 12 and 2n, the
\* old ones where they were; FindTextureSlot, FindTextureID and FindMaterial
\* return for every tag what they returned before the call.
C18_SecondPrepareAppends ==
    (Returned("PrepareScene") /\ calls.prepare = 2) =>
        LET n == Cardinality({ i \in 1 .. Len(SceneLoads) : disk[SceneLoads[i].file] \in {3, 4} })
        IN  /\ ret.before.size = 6
            /\ Len(m_objectMaterials) = 12
            /\ SubSeq(m_objectMaterials, 1, 6) = ret.before.mats
            /\ ret.before.loaded = n
            /\ m_loadedTextures = 2 * n
            /\ \A i \in 0 .. (n - 1) : m_textureIDs[i] = ret.before.ids[i]
            /\ \A t \in AllTextureTags :
                  /\ FindTextureSlot(m_textureIDs, m_loadedTextures, t)
                        = FindTextureSlot(ret.before.ids, ret.before.loaded, t)
                  /\ FindTextureID(m_textureIDs, m_loadedTextures, t)
                        = FindTextureID(ret.before.ids, ret.before.loaded, t)
            /\ \A t \in AllMaterialTags, out \in OutMaterials :
                  FindMaterial(m_objectMaterials, t, out) = FindMaterial(ret.before.mats, t, out)

C18_Witness ==
    /\ Returned("PrepareScene")
    /\ calls.prepare = 2
    /\ Len(m_objectMaterials) = 12
    /\ m_loadedTextures = 12
    /\ m_textureIDs[7].tag = "pot"
    /\ FindTextureSlot(m_textureIDs, m_loadedTextures, "pot") = 1
    /\ FindTextureSlot(m_textureIDs, m_loadedTextures, "melon") = -1

====
